---- MODULE Spec2Model ----
(***************************************************************************)
(* Model of autonomous_scheduler.py: the session-cycle scheduler.          *)
(*                                                                         *)
(* One scheduler process at a time runs main().  The process is single     *)
(* threaded; it blocks in subprocess.run (pc = "running") and in           *)
(* time.sleep(60) (pc = "sleep").  Time is counted in whole minutes and    *)
(* every timestamp is kept relative to the present: next_run is the number *)
(* of minutes until the schedule job is due and cycle_start_time is the    *)
(* number of minutes since datetime.now() was stored in it.                *)
(***************************************************************************)
EXTENDS Integers, Sequences, FiniteSets, TLC

\* ------------------------------------------------------------------ bounds
MaxSessionsBound == 5   \* MAX_SESSIONS is drawn from 1..MaxSessionsBound
MaxTimeout == 1         \* SESSION_TIMEOUT_MINUTES is drawn from 1..MaxTimeout
MaxInterval == 2        \* --interval is drawn from 1..MaxInterval
MaxRuns == 6            \* number of successive --once processes
MaxAge == 2             \* timestamps of the diary check lie 0..MaxAge minutes back
MaxDiary == 2           \* number of records in the diary store
MaxEmails == 7          \* number of unread emails handed to build_system_message
MaxClock == 2           \* datetime.now() of the tools reads 0..MaxClock
MaxAdds == 3            \* number of add_diary_entry calls
MaxFacts == 3           \* number of facts add_fact calls put in the store

\* ------------------------------------------------------- program constants
EXIT_OK == 0
EXIT_TIMEOUT == 124
SUPERVISORY_EXTRA_MINUTES == 1    \* timeout=SESSION_TIMEOUT_MINUTES * 60 + 60
SLEEP_MINUTES == 1                \* time.sleep(60)

\* Optional values are sequences: None is the empty one, Some(x) holds x.
None == << >>
Some(x) == <<x>>
Get(o) == o[1]

\* Return codes a child can hand to subprocess.run: success, the code of the
\* timeout wrapper, an application failure, and death by signal (negative
\* in Python).
ExitCodes == {EXIT_OK, EXIT_TIMEOUT, 1, -9}

\* Exceptions that can leave subprocess.run.
ExceptionKinds == {"TimeoutExpired", "OSError", "KeyboardInterrupt"}

\* The -m/--message values a process is started with.
Messages == {None, Some("note")}

\* The ways the pending-notices fetch can end.
EmailFetchKinds == {"missing", "nonzero", "timeout", "exception", "none_found", "found"}

VARIABLES
    MAX_SESSIONS,             \* Sessions per cycle (schedule setting)
    SESSION_TIMEOUT_MINUTES,  \* Session timeout (schedule setting)
    once,                     \* args.once of the running process
    interval,                 \* args.interval of the running process
    custom_message,           \* global custom_message (args.message)
    session_count,            \* global session_count
    cycle_start_time,         \* global cycle_start_time: None or minutes ago
    pc,                       \* where the process is
    caller,                   \* who called run_session: once, first, scheduled
    next_run,                 \* job.next_run: None or minutes until due
    elapsed,                  \* minutes the current subprocess.run has blocked
    outstanding,              \* subprocess.run calls that have not returned
    exit_status,              \* exit status of the last process, None if alive
    stop_reason,              \* how the last process ended
    main_log,                 \* lines logged by main() of the running process
    email_fetch,              \* how check_unread_emails ended in this session
    email_result,             \* what check_unread_emails returned
    inv_log,                  \* lines logged by the current run_session call
    system_message,           \* the message handed to the child of the current call
    launches,                 \* subprocess.run calls made by the current call
    step_number,              \* session number used by the current call
    cmd_continue,             \* whether --continue was appended to cmd
    is_final,                 \* is_final of the current call
    cs_written,               \* whether the current call stored cycle_start_time
    last_ending,              \* how the subprocess.run of the current call ended
    prev_step,                \* while blocked: step_number of the previous call
    prev_ending,              \* while blocked: last_ending of the previous call
    invocations,              \* run_session calls in this process: 0, 1, 2, 3 (= more)
    since_start,              \* minutes since the latest call started
    since_end,                \* minutes since the latest call ended
    idle,                     \* while blocked: minutes the loop waited before this call
    gap,                      \* while blocked: minutes between the last two call starts
    once_hist,                \* one record per successive --once process
    diary_file,               \* DIARY_FILE: None if absent, else its content
    diary_written,            \* what check_diary_written returned, None if not called
    diary_store,              \* tools/update_diary.py: DIARY_FILE, None if absent
    diary_added,              \* the entries add_diary_entry calls have added
    knowledge_file,           \* tools/update_knowledge.py: KNOWLEDGE_FILE
    knowledge_last,           \* the last call on KNOWLEDGE_FILE and the file before it
    goals_file,               \* tools/update_goals.py: GOALS_FILE
    tool_kind,                \* the tool two processes run at the same time
    tool_pc,                  \* where each of the two tool processes is
    tool_loaded,              \* what each tool process has loaded
    tool_arg                  \* the argument of each tool process

config == <<MAX_SESSIONS, SESSION_TIMEOUT_MINUTES>>
args == <<once, interval, custom_message>>
globals == <<session_count, cycle_start_time>>
control == <<pc, caller, next_run, elapsed, outstanding, exit_status, stop_reason,
             main_log>>
session == <<email_fetch, email_result, inv_log, system_message, launches,
             step_number, cmd_continue, is_final, cs_written, last_ending>>
history == <<prev_step, prev_ending, invocations, since_start, since_end, idle,
             gap, once_hist>>
diary == <<diary_file, diary_written>>
stores == <<diary_store, diary_added, knowledge_file, knowledge_last, goals_file,
            tool_kind, tool_pc, tool_loaded, tool_arg>>
vars == <<config, args, globals, control, session, history, diary, stores>>

NoEnding == [kind |-> "none"]
ExitEnding(c) == [kind |-> "exit", code |-> c]
RaiseEnding(x) == [kind |-> "raise", exc |-> x]
Endings == {ExitEnding(c) : c \in ExitCodes} \cup {RaiseEnding(x) : x \in ExceptionKinds}

Min(a, b) == IF a < b THEN a ELSE b
Max(a, b) == IF a > b THEN a ELSE b

\* ------------------------------------------------------------ module load
\* Lines 33-36: the session tracking globals as the interpreter creates them.
InitialSessionCount == 0
InitialCycleStartTime == None

\* Line 35 as it acts at a start of the program: whatever session_count the
\* process before left behind, the new process begins with the initial one.
\* (Faulty variant: the count survives the restart.)
SessionCountCarriedOver(left) == left
SessionCountAtStart(left) == InitialSessionCount

\* ------------------------------------------------------- check_unread_emails
\* Lines 74-112: every failure returns None, "No emails found" returns count 0.
\* (Faulty variant: a failed fetch is handed on as an email.)
check_unread_emails_reporting_failure(kind, subjects) ==
    CASE kind \in {"missing", "nonzero", "timeout", "exception"} ->
             Some([count |-> 1, emails |-> <<"email check failed">>])
      [] kind = "none_found" -> Some([count |-> 0, emails |-> << >>])
      [] kind = "found"      -> Some([count |-> Len(subjects), emails |-> subjects])
check_unread_emails(kind, subjects) ==
    CASE kind = "missing"    -> None
      [] kind = "nonzero"    -> None
      [] kind = "timeout"    -> None
      [] kind = "exception"  -> None
      [] kind = "none_found" -> Some([count |-> 0, emails |-> << >>])
      [] kind = "found"      -> Some([count |-> Len(subjects), emails |-> subjects])

\* Truthiness of email_result as tested on line 171: None and {} are false, a
\* dict with keys is true.
Truthy(r) == r # None

\* ------------------------------------------------------- build_system_message
\* Line 147: at most this many subjects are listed.
EMAIL_DISPLAY_CAP == 5

\* A line of the message; the blank line is the "" of lines 127, 131, 144, 152.
Line(tag) == [t |-> tag]
Blank == Line("")

\* Lines 118-121: the header.
HeaderLines == <<Line("System notification:"), Line("Current time")>>

\* Lines 124-137: the block of the final session.
ReflectionLines ==
    <<[t |-> "Reflection & Diary", n |-> MAX_SESSIONS, of |-> MAX_SESSIONS],
      Line("This session is for:"),
      Blank,
      Line("Diary"),
      Line("- Record today's activities"),
      Line("- Write diary entry"),
      Blank,
      Line("Memory Organization"),
      Line("- Review working_memory.md"),
      Line("- Move important info"),
      Blank,
      Line("After this session, a new cycle begins.")>>

\* Line 139: the marker of an ordinary session.
SessionLine(session_num) == [t |-> "Session", n |-> session_num, of |-> MAX_SESSIONS]

\* Lines 142-149: the notice block, present when a result with count > 0 came.
\* (Faulty variant: every subject is listed.)
EmailLinesUncapped(result) ==
    IF result # None /\ Get(result).count > 0
    THEN <<Blank, [t |-> "unread email(s)", count |-> Get(result).count]>>
         \o [i \in 1..Len(Get(result).emails) |->
                [t |-> "subject", text |-> Get(result).emails[i]]]
         \o <<Line("Use receive_email.py")>>
    ELSE << >>
EmailLines(result) ==
    IF result # None /\ Get(result).count > 0
    THEN <<Blank, [t |-> "unread email(s)", count |-> Get(result).count]>>
         \o [i \in 1..Min(EMAIL_DISPLAY_CAP, Len(Get(result).emails)) |->
                [t |-> "subject", text |-> Get(result).emails[i]]]
         \o <<Line("Use receive_email.py")>>
    ELSE << >>

\* Lines 151-152: the custom message; None and "" are false in Python.
CustomLines(custom_msg) ==
    IF custom_msg # None /\ Get(custom_msg) # ""
    THEN <<Blank, [t |-> "Message", text |-> Get(custom_msg)]>>
    ELSE << >>

\* Lines 115-154.
\* (Faulty variant: the custom message comes before the email block.)
build_system_message_custom_first(session_num, final, custom_msg, result) ==
    HeaderLines
    \o (IF final THEN ReflectionLines ELSE <<SessionLine(session_num)>>)
    \o CustomLines(custom_msg)
    \o EmailLines(result)
build_system_message(session_num, final, custom_msg, result) ==
    HeaderLines
    \o (IF final THEN ReflectionLines ELSE <<SessionLine(session_num)>>)
    \o EmailLines(result)
    \o CustomLines(custom_msg)

\* ---------------------------------------------------------------- run_session
\* Line 164: a new cycle starts on session 1.
\* (Faulty variant: every session stamps a cycle start.)
StartsNewCycleEverySession(count) == count >= 1
StartsNewCycle(count) == count = 1

\* Line 174.
\* (Faulty variant: the session before the last is taken for the final one.)
IsFinalOneEarly(count) == count = MAX_SESSIONS - 1
IsFinal(count) == count = MAX_SESSIONS

\* Line 189: --continue for sessions 2..MAX_SESSIONS-1.
\* (Faulty variant: the final session continues too.)
AddsContinueOnFinal(count) == 1 < count /\ count <= MAX_SESSIONS
AddsContinue(count) == 1 < count /\ count < MAX_SESSIONS

\* Lines 202-207: the outcome line of a returned subprocess.run.
\* (Faulty variant: 124 is not told apart.)
ReturnCodeLineWithout124(code) ==
    IF code = EXIT_OK THEN "completed normally" ELSE "exited with code"
ReturnCodeLine(code) ==
    IF code = EXIT_OK THEN "completed normally"
    ELSE IF code = EXIT_TIMEOUT THEN "timed out"
    ELSE "exited with code"

\* Python's exception hierarchy: TimeoutExpired and OSError derive from
\* Exception, KeyboardInterrupt derives from BaseException only.
IsException(x) == x \in {"TimeoutExpired", "OSError"}

\* Lines 209-212: the except clauses of run_session.
\* (Faulty variant: the catch-all clause is missing.)
HandlerCatchesTimeoutOnly(x) == x = "TimeoutExpired"
HandlerCatches(x) == x = "TimeoutExpired" \/ IsException(x)

\* Lines 209-212: the line logged by the except clause that catches x.
\* (Faulty variant: the supervisory timeout is logged like the wrapper's.)
ExceptionLineLikeWrapper(x) ==
    IF x = "TimeoutExpired" THEN "timed out" ELSE "error"
ExceptionLine(x) ==
    IF x = "TimeoutExpired" THEN "timed out (Python level)" ELSE "error"

\* Line 215: the cycle is reset after the last session.
\* (Faulty variant: the comparison is off by one.)
CycleOverOffByOne(count) == count > MAX_SESSIONS
CycleOver(count) == count >= MAX_SESSIONS

OutcomeLines == {"completed normally", "timed out", "exited with code",
                 "timed out (Python level)", "error"}

IsOutcomeLine(l) == l \in OutcomeLines

\* Lines 157-195: run_session from its entry to the blocking subprocess.run.
\* sc and cst are the globals on entry; h holds the history on entry.
RunSessionBegin(who, sc, cst, h) ==
    \E kind \in EmailFetchKinds :
        LET count  == sc + 1
            result == check_unread_emails(kind, <<"subject 1">>)
            fresh  == StartsNewCycle(count)
        IN  /\ session_count' = count
            /\ cycle_start_time' = IF fresh THEN Some(0) ELSE cst
            /\ cs_written' = fresh
            /\ email_fetch' = kind
            /\ email_result' = result
            /\ is_final' = IsFinal(count)
            /\ system_message' = build_system_message(count, IsFinal(count),
                                                      custom_message, result)
            /\ launches' = 1
            /\ cmd_continue' = AddsContinue(count)
            /\ step_number' = count
            /\ inv_log' = (IF fresh THEN <<"starting new cycle">> ELSE << >>)
                          \o <<"checking emails">>
                          \o (IF kind \in {"nonzero", "timeout", "exception"}
                              THEN <<"email check failed">> ELSE << >>)
                          \o (IF Truthy(result) THEN <<"found emails">> ELSE << >>)
                          \o <<"starting session">>
            /\ caller' = who
            /\ pc' = "running"
            /\ elapsed' = 0
            /\ outstanding' = outstanding + 1
            /\ last_ending' = NoEnding
            /\ prev_step' = h.step
            /\ prev_ending' = h.ending
            /\ invocations' = Min(h.invocations + 1, 3)
            /\ gap' = IF h.invocations = 0 THEN None ELSE Some(h.since_start)
            /\ idle' = IF h.invocations = 0 THEN None ELSE Some(h.since_end)
            /\ since_start' = 0
            /\ since_end' = 0

\* The history a process starts with, and the history it has reached.
CurrentHistory == [step |-> step_number, ending |-> last_ending,
                   invocations |-> invocations, since_start |-> since_start,
                   since_end |-> since_end]

\* Lines 195-217: what run_session logs and stores once subprocess.run has
\* ended with e, up to its return or to the exception leaving it.
Propagates(e) == e.kind = "raise" /\ ~HandlerCatches(e.exc)

OutcomeLog(e) ==
    IF e.kind = "exit" THEN <<ReturnCodeLine(e.code)>>
    ELSE IF HandlerCatches(e.exc) THEN <<ExceptionLine(e.exc)>>
    ELSE << >>

\* Lines 214-217: session_count when run_session returns.
\* (Faulty variant: a failed session gives its step back.)
CountAfterRetryingFailures(e, count) ==
    IF e.kind = "exit" /\ e.code = EXIT_OK
    THEN (IF CycleOver(count) THEN 0 ELSE count)
    ELSE count - 1
\* (Faulty variant: only a successful last session resets the cycle.)
CountAfterResetOnSuccessOnly(e, count) ==
    IF CycleOver(count) /\ e.kind = "exit" /\ e.code = EXIT_OK THEN 0 ELSE count
CountAfter(e, count) == IF CycleOver(count) THEN 0 ELSE count

\* Lines 214-217: cycle_start_time when run_session returns; the reset of
\* the cycle does not touch it.
\* (Faulty variant: the reset clears it.)
CycleStartClearedAfter(count, cst) == IF CycleOver(count) THEN None ELSE cst
CycleStartAfter(count, cst) == cst

\* Lines 194-212: subprocess.run is not inside a loop; no ending makes
\* run_session launch the child again.
\* (Faulty variant: a failed launch is tried again, once.)
RelaunchAfterFailure(e, n) ==
    /\ n < 2
    /\ \/ e.kind = "exit" /\ e.code # EXIT_OK
       \/ e.kind = "raise" /\ IsException(e.exc)
RelaunchAfter(e, n) == FALSE

RunSessionEnd(e) ==
    /\ last_ending' = e
    /\ outstanding' = outstanding - 1
    /\ elapsed' = 0
    /\ prev_step' = 0
    /\ prev_ending' = NoEnding
    /\ gap' = None
    /\ since_end' = 0
    /\ idle' = None
    /\ launches' = launches
    /\ IF Propagates(e)
       THEN /\ inv_log' = inv_log
            /\ session_count' = session_count
            /\ cycle_start_time' = cycle_start_time
       ELSE /\ cycle_start_time' = CycleStartAfter(session_count, cycle_start_time)
            /\ inv_log' = inv_log \o OutcomeLog(e)
                          \o (IF CycleOver(session_count)
                              THEN <<"cycle completed">> ELSE << >>)
            /\ session_count' = CountAfter(e, session_count)

\* ------------------------------------------------------------------- time
\* d minutes pass: the job comes closer to due, stored timestamps grow older.
Elapse(d) ==
    /\ next_run' = IF next_run = None THEN None ELSE Some(Max(0, Get(next_run) - d))
    /\ cycle_start_time' = IF cycle_start_time = None THEN None
                           ELSE Some(Get(cycle_start_time) + d)
    /\ since_start' = since_start + d
    /\ since_end' = since_end + d

\* ------------------------------------------------------------------- main
\* Line 254: the only except clause of main.
MainCatches(x) == x = "KeyboardInterrupt"

\* Line 252: schedule.run_pending() is called by the main thread alone, when
\* the statement before it has returned.
\* (Faulty variant: a timer thread polls while a session is running.)
RunPendingCalledByTimerThread == pc \in {"loop", "running"}
RunPendingCalled == pc = "loop"

\* Job.should_run of the schedule library: now >= next_run.  next_run is set
\* to now + interval when the job is registered (line 243) and again by
\* Job.run when the job function has returned (see ChildEnds).
\* (Faulty variant: the job runs at every poll.)
ShouldRunAlways == next_run # None
ShouldRun == next_run # None /\ Get(next_run) = 0

\* Job._schedule_next_run of the schedule library, called by do() on line 243
\* and by Job.run: next_run = now + i minutes; due at once when i <= 0.
Arm(i) == Some(Max(0, i))

\* Lines 237-246: who calls the first run_session.
\* (Faulty variant: --once is ignored.)
FirstCallerIgnoresOnce(o) == "first"
FirstCaller(o) == IF o THEN "once" ELSE "first"

\* Lines 232-238: the lines main logs before the first run_session.
StartupLog(o) ==
    <<"starting autonomous scheduler", "session interval", "session timeout",
      "sessions per cycle">>
    \o (IF o THEN <<"running single session">> ELSE << >>)

\* Lines 33-36 and 220-243: the program is started; the module is loaded,
\* main() parses the arguments, logs the settings and registers the job
\* unless --once.
Startup(o, i, m) ==
    /\ pc = "stopped"
    /\ o => Len(once_hist) < MaxRuns
    /\ pc' = "main"
    /\ once' = o
    /\ interval' = i
    /\ custom_message' = m
    /\ session_count' = SessionCountAtStart(session_count)
    /\ cycle_start_time' = InitialCycleStartTime
    /\ exit_status' = None
    /\ stop_reason' = "none"
    /\ main_log' = StartupLog(o)
    /\ caller' = "none"
    /\ next_run' = IF o THEN None ELSE Arm(i)
    /\ email_fetch' = "none_found"
    /\ email_result' = None
    /\ inv_log' = << >>
    /\ system_message' = << >>
    /\ launches' = 0
    /\ step_number' = 0
    /\ cmd_continue' = FALSE
    /\ is_final' = FALSE
    /\ cs_written' = FALSE
    /\ last_ending' = NoEnding
    /\ invocations' = 0
    /\ since_start' = 0
    /\ since_end' = 0
    /\ once_hist' = IF o THEN once_hist ELSE << >>
    /\ UNCHANGED <<config, elapsed, outstanding, prev_step, prev_ending, idle, gap,
                   diary, stores>>

\* Lines 239 and 246: main calls run_session, at once.
FirstSession ==
    /\ pc = "main"
    /\ RunSessionBegin(FirstCaller(once), session_count, cycle_start_time,
                       CurrentHistory)
    /\ once_hist' = IF once
                    THEN Append(once_hist, [step |-> step_number',
                                            continue |-> cmd_continue',
                                            final |-> is_final',
                                            new_cycle_start |-> cycle_start_time' = Some(0)])
                    ELSE once_hist
    /\ UNCHANGED <<config, args, next_run, exit_status, stop_reason, main_log,
                   diary, stores>>

\* Line 255: the handler of main logs the stop; returning from main on line
\* 240 and an uncaught exception log nothing.
\* (Faulty variant: nothing is logged by the handler either.)
ShutdownLogNever(reason) == << >>
ShutdownLog(reason) ==
    IF reason = "stopped by user" THEN <<"scheduler stopped by user">> ELSE << >>

\* The process ends: by returning from main, by the handler of line 254, or
\* by an exception nobody catches.
Exit(status, reason) ==
    /\ pc' = "stopped"
    /\ exit_status' = Some(status)
    /\ stop_reason' = reason
    /\ main_log' = main_log \o ShutdownLog(reason)
    /\ UNCHANGED <<caller, next_run>>

\* Line 184: the timeout wrapper ends the child after this many minutes.
WrapperLimit == SESSION_TIMEOUT_MINUTES

\* Line 199: subprocess.run gives up after this many minutes.
\* (Faulty variant: the extra minute is missing.)
SupervisoryLimitWithoutExtra == SESSION_TIMEOUT_MINUTES
SupervisoryLimit == SESSION_TIMEOUT_MINUTES + SUPERVISORY_EXTRA_MINUTES

\* The child is still running and a minute passes.  Past WrapperLimit this
\* is the wrapper failing to end the child.
ChildTick ==
    /\ pc = "running"
    /\ elapsed < SupervisoryLimit
    /\ elapsed' = elapsed + 1
    /\ Elapse(1)
    /\ UNCHANGED <<config, args, session_count, pc, caller, outstanding, exit_status,
                   stop_reason, main_log, session, prev_step, prev_ending, invocations, idle,
                   gap, once_hist, diary, stores>>

\* When subprocess.run can end with e: with the child's own return code
\* before the wrapper's limit, with the wrapper's 124 once that limit is
\* reached, with TimeoutExpired when timeout= is used up, with a launch
\* failure at once, with the operator's interrupt at any moment.
CanEnd(e) ==
    CASE e.kind = "exit" ->
             \/ elapsed < WrapperLimit
             \/ elapsed >= WrapperLimit /\ elapsed < SupervisoryLimit
                   /\ e.code = EXIT_TIMEOUT
      [] e.kind = "raise" /\ e.exc = "TimeoutExpired" -> elapsed >= SupervisoryLimit
      [] e.kind = "raise" /\ e.exc = "OSError" -> elapsed = 0
      [] e.kind = "raise" /\ e.exc = "KeyboardInterrupt" -> TRUE

\* Lines 195-217 and the return to the caller (lines 239-240, 246-248, or
\* Job.run and lines 252-255).
ChildEnds(e) ==
    /\ pc = "running"
    /\ CanEnd(e)
    /\ IF RelaunchAfter(e, launches)
       THEN /\ launches' = launches + 1
            /\ elapsed' = 0
            /\ inv_log' = inv_log \o OutcomeLog(e)
            /\ UNCHANGED <<globals, pc, caller, next_run, outstanding, exit_status,
                           stop_reason, main_log, last_ending, prev_step, prev_ending, gap,
                           since_end, idle>>
       ELSE /\ RunSessionEnd(e)
            /\ IF Propagates(e)
               THEN IF caller = "scheduled" /\ MainCatches(e.exc)
                    THEN Exit(0, "stopped by user")
                    ELSE Exit(1, "traceback")
               ELSE CASE caller = "once" -> Exit(0, "returned")
                      [] caller = "first" ->
                            /\ pc' = "loop"
                            /\ main_log' = Append(main_log, "scheduler running")
                            /\ UNCHANGED <<caller, next_run, exit_status, stop_reason>>
                      [] caller = "scheduled" ->
                            /\ next_run' = Arm(interval)
                            /\ pc' = "sleep"
                            /\ UNCHANGED <<caller, exit_status, stop_reason, main_log>>
    /\ UNCHANGED <<config, args, email_fetch, email_result, system_message,
                   step_number, cmd_continue, is_final, cs_written, invocations,
                   since_start, once_hist, diary, stores>>

\* Line 252: run_pending runs the job when it is due.
RunPending ==
    /\ RunPendingCalled
    /\ IF ShouldRun
       THEN /\ RunSessionBegin("scheduled", session_count, cycle_start_time,
                               CurrentHistory)
            /\ UNCHANGED <<config, args, next_run, exit_status, stop_reason,
                           main_log, once_hist, diary, stores>>
       ELSE /\ pc' = "sleep"
            /\ UNCHANGED <<config, args, globals, caller, next_run, elapsed,
                           outstanding, exit_status, stop_reason, main_log, session,
                           history,
                           diary, stores>>

\* Line 253: time.sleep(60).
Sleep ==
    /\ pc = "sleep"
    /\ pc' = "loop"
    /\ Elapse(SLEEP_MINUTES)
    /\ UNCHANGED <<config, args, session_count, caller, elapsed, outstanding,
                   exit_status, stop_reason, main_log, session, prev_step,
                   prev_ending, invocations, idle, gap, once_hist, diary, stores>>

\* Lines 254-255: Ctrl+C while the loop polls or sleeps.
Interrupt ==
    /\ pc \in {"loop", "sleep"}
    /\ Exit(0, "stopped by user")
    /\ UNCHANGED <<config, args, globals, elapsed, outstanding, session, history,
                   diary, stores>>

\* The two tool processes.
ToolProcs == {1, 2}

\* No call on KNOWLEDGE_FILE has been made.
NoCall == [op |-> "none"]

\* The memory directory is empty and no tool runs.
InitStores ==
    /\ diary_store = None
    /\ diary_added = {}
    /\ knowledge_file = None
    /\ knowledge_last = NoCall
    /\ goals_file = None
    /\ tool_kind = "none"
    /\ tool_pc = [p \in ToolProcs |-> "idle"]
    /\ tool_loaded = [p \in ToolProcs |-> None]
    /\ tool_arg = [p \in ToolProcs |-> None]

\* No process has been started yet.
InitScheduler ==
    /\ MAX_SESSIONS \in 1..MaxSessionsBound
    /\ SESSION_TIMEOUT_MINUTES \in 1..MaxTimeout
    /\ once = FALSE
    /\ interval = 1
    /\ custom_message = None
    /\ session_count = InitialSessionCount
    /\ pc = "stopped"
    /\ caller = "none"
    /\ next_run = None
    /\ elapsed = 0
    /\ outstanding = 0
    /\ exit_status = None
    /\ stop_reason = "none"
    /\ main_log = << >>
    /\ email_fetch = "none_found"
    /\ email_result = None
    /\ inv_log = << >>
    /\ system_message = << >>
    /\ launches = 0
    /\ step_number = 0
    /\ cmd_continue = FALSE
    /\ is_final = FALSE
    /\ cs_written = FALSE
    /\ last_ending = NoEnding
    /\ prev_step = 0
    /\ prev_ending = NoEnding
    /\ invocations = 0
    /\ since_start = 0
    /\ since_end = 0
    /\ idle = None
    /\ gap = None
    /\ once_hist = << >>
    /\ InitStores

Init ==
    /\ InitScheduler
    /\ cycle_start_time = InitialCycleStartTime
    /\ diary_file = None
    /\ diary_written = None

Next ==
    \/ \E o \in BOOLEAN, i \in 1..MaxInterval, m \in Messages : Startup(o, i, m)
    \/ FirstSession
    \/ ChildTick
    \/ \E e \in Endings : ChildEnds(e)
    \/ RunPending
    \/ Sleep
    \/ Interrupt

Spec == Init /\ [][Next]_vars

\* ------------------------------------------------- starts with a bad interval
\* --interval values that argparse's type=int accepts and that are not a
\* positive number of minutes.
InvalidIntervals == {-1, 0}

ConfigNext ==
    \/ \E o \in BOOLEAN, i \in InvalidIntervals : Startup(o, i, None)
    \/ FirstSession
    \/ ChildTick
    \/ \E e \in Endings : ChildEnds(e)
    \/ RunPending
    \/ Sleep
    \/ Interrupt

ConfigSpec == Init /\ [][ConfigNext]_vars

\* ----------------------------------------------------- build_system_message
\* The subjects of k emails, in the order of the tool's output.
Subjects(k) == [i \in 1..k |-> ToString(i)]

\* Line 105: the email_info of k subjects.
EmailInfo(k) == Some([count |-> k, emails |-> Subjects(k)])

\* An email_info arrives for the composer.
Supply(k) ==
    /\ email_result = None
    /\ system_message = << >>
    /\ email_result' = EmailInfo(k)
    /\ UNCHANGED <<config, args, globals, control, email_fetch, inv_log,
                   system_message, launches, step_number, cmd_continue, is_final,
                   cs_written, last_ending, history, diary, stores>>

\* build_system_message is called for session n.
Compose(n, m) ==
    /\ system_message = << >>
    /\ system_message' = build_system_message(n, IsFinal(n), m, email_result)
    /\ step_number' = n
    /\ is_final' = IsFinal(n)
    /\ custom_message' = m
    /\ UNCHANGED <<config, once, interval, globals, control, email_fetch,
                   email_result, inv_log, launches, cmd_continue, cs_written,
                   last_ending, history, diary, stores>>

\* The values of -m for the composer: not given, empty, a text.
MessageInputs == Messages \cup {Some("")}

MessageNext ==
    \/ \E k \in 0..MaxEmails : Supply(k)
    \/ \E n \in 1..MAX_SESSIONS, m \in MessageInputs : Compose(n, m)

MessageSpec == Init /\ [][MessageNext]_vars

\* ------------------------------------------------------ check_diary_written
\* The 'datetime' of a diary record: absent or empty, not in the format of
\* line 66, or a time age minutes back.
DatetimeFields ==
    {[kind |-> "missing"], [kind |-> "unparsable"]}
    \cup {[kind |-> "ok", age |-> a] : a \in 0..MaxAge}

\* All sequences over S of length at most n.
SeqsUpTo(S, n) == UNION {[1..k -> S] : k \in 0..n}

\* DIARY_FILE: absent, not readable, not JSON, or a list of records.
DiaryFiles ==
    {None, Some([json |-> "unreadable"]), Some([json |-> "malformed"])}
    \cup {Some([json |-> "list", entries |-> es]) : es \in SeqsUpTo(DatetimeFields, MaxDiary)}

\* Line 67: latest_datetime > cycle_start_time, on times given as ages: the
\* later time is the one fewer minutes back.
\* (Faulty variant: the comparison is not strict.)
LaterOrEqual(a, b) == a <= b
LaterThan(a, b) == a < b

\* Lines 53-67: the exception the try block raises for an existing file,
\* "none" if it runs to a return: open and json.load fail on line 54-55,
\* strptime on line 66, and datetime > None on line 67.
DiaryRaises(file, cst) ==
    IF Get(file).json = "unreadable" THEN "OSError"
    ELSE IF Get(file).json = "malformed" THEN "JSONDecodeError"
    ELSE IF Get(file).entries = << >> THEN "none"
    ELSE LET latest_entry == Get(file).entries[Len(Get(file).entries)]
         IN  IF latest_entry.kind = "missing" THEN "none"
             ELSE IF latest_entry.kind = "unparsable" THEN "ValueError"
             ELSE IF cst = None THEN "TypeError"
             ELSE "none"

\* Line 69: except Exception.
\* (Faulty variant: only the parse error of strptime is caught.)
DiaryHandlerCatchesValueErrorOnly(x) == x = "ValueError"
DiaryHandlerCatches(x) == x \in {"OSError", "JSONDecodeError", "ValueError", "TypeError"}

\* Lines 48-71, the value returned when the handler of line 69 catches what
\* the try block raises.
check_diary_written(file, cst) ==
    IF file = None THEN FALSE
    ELSE IF DiaryRaises(file, cst) # "none" THEN FALSE
    ELSE IF Get(file).entries = << >> THEN FALSE
    ELSE LET latest_entry == Get(file).entries[Len(Get(file).entries)]
         IN  IF latest_entry.kind = "missing" THEN FALSE
             ELSE LaterThan(latest_entry.age, Get(cst))

\* The call ends by raising x into its caller.
Raised(x) == <<"raise", x>>

\* check_diary_written is called.
CheckDiary ==
    /\ diary_written = None
    /\ diary_written' =
          IF /\ diary_file # None
             /\ DiaryRaises(diary_file, cycle_start_time) # "none"
             /\ ~DiaryHandlerCatches(DiaryRaises(diary_file, cycle_start_time))
          THEN Raised(DiaryRaises(diary_file, cycle_start_time))
          ELSE Some(check_diary_written(diary_file, cycle_start_time))
    /\ UNCHANGED <<config, args, globals, control, session, history, diary_file,
                   stores>>

DiaryInit ==
    /\ InitScheduler
    /\ cycle_start_time \in {None} \cup {Some(a) : a \in 0..MaxAge}
    /\ diary_file \in DiaryFiles
    /\ diary_written = None

DiaryNext == CheckDiary

DiarySpec == DiaryInit /\ [][DiaryNext]_vars

\* ------------------------------------------------- tools/update_diary.py
\* list.sort(key=get_datetime_for_sort) is stable: e goes behind the entries
\* of s whose datetime is not later than its own.
InsertByDatetime(e, s) ==
    LET before == SelectSeq(s, LAMBDA x : x.datetime <= e.datetime)
        behind == SelectSeq(s, LAMBDA x : x.datetime > e.datetime)
    IN  before \o <<e>> \o behind

RECURSIVE StableSort(_)
StableSort(s) ==
    IF s = << >> THEN << >>
    ELSE InsertByDatetime(s[Len(s)], StableSort(SubSeq(s, 1, Len(s) - 1)))

\* Line 78.
\* (Faulty variant: the list is saved as appended.)
SortByDatetimeOmitted(entries) == entries
SortByDatetime(entries) == StableSort(entries)

\* Lines 53-57: the list add_diary_entry starts from.
LoadDiary(file) == IF file = None THEN << >> ELSE Get(file)

\* Lines 60-78: the list add_diary_entry saves, now being the clock's
\* reading and id telling the entry (title, content) from the others.
WithDiaryEntry(entries, now, id) ==
    SortByDatetime(Append(entries, [datetime |-> now, id |-> id]))

\* Lines 50-83 as one call running alone.  datetime.now() is the local wall
\* clock, which can be set back between two calls.
add_diary_entry(now) ==
    /\ Cardinality(diary_added) < MaxAdds
    /\ LET id == Cardinality(diary_added) + 1
       IN  /\ diary_store' = Some(WithDiaryEntry(LoadDiary(diary_store), now, id))
           /\ diary_added' = diary_added \cup {[datetime |-> now, id |-> id]}
    /\ UNCHANGED <<config, args, globals, control, session, history, diary,
                   knowledge_file, knowledge_last, goals_file, tool_kind, tool_pc,
                   tool_loaded, tool_arg>>

\* The store exists and holds the empty list.
CreateEmptyDiary ==
    /\ diary_store = None
    /\ diary_added = {}
    /\ diary_store' = Some(<< >>)
    /\ UNCHANGED <<config, args, globals, control, session, history, diary,
                   diary_added, knowledge_file, knowledge_last, goals_file,
                   tool_kind, tool_pc, tool_loaded, tool_arg>>

DiaryToolNext ==
    \/ CreateEmptyDiary
    \/ \E now \in 0..MaxClock : add_diary_entry(now)

DiaryToolSpec == Init /\ [][DiaryToolNext]_vars

\* --------------------------------------------- tools/update_knowledge.py
\* Facts and patterns are strings, here sequences over a two-letter
\* alphabet of at most FactLen letters.
Alphabet == {"a", "b"}
FactLen == 2
Facts == UNION {[1..k -> Alphabet] : k \in 1..FactLen}
Patterns == Facts \cup {<< >>}

\* Python's "pattern in fact" on strings: pattern is a substring of fact.
Contains(pattern, fact) ==
    \E i \in 0..(Len(fact) - Len(pattern)) :
        SubSeq(fact, i + 1, i + Len(pattern)) = pattern

\* Lines 27-31 and 34: the list of facts add_fact starts from.
LoadFacts(file) == IF file = None THEN << >> ELSE Get(file)

\* Line 34: fact in knowledge.get("facts", []).
\* (Faulty variant: the duplicate check is missing.)
IsDuplicateNever(fact, facts) == FALSE
IsDuplicate(fact, facts) == \E i \in 1..Len(facts) : facts[i] = fact

\* Lines 24-44: the file after add_fact(fact); a duplicate returns on line
\* 36 without saving.
AfterAddFact(file, fact) ==
    IF IsDuplicate(fact, LoadFacts(file)) THEN file
    ELSE Some(Append(LoadFacts(file), fact))

\* Lines 50-72: the file after remove_fact(fact_pattern); a missing file
\* and a pattern no fact contains return without saving.
AfterRemoveFact(file, fact_pattern) ==
    IF file = None THEN file
    ELSE LET removed   == SelectSeq(Get(file), LAMBDA f : Contains(fact_pattern, f))
             remaining == SelectSeq(Get(file), LAMBDA f : ~Contains(fact_pattern, f))
         IN  IF removed = << >> THEN file ELSE Some(remaining)

\* add_fact(fact) as one call running alone.
add_fact(fact) ==
    /\ Len(LoadFacts(knowledge_file)) < MaxFacts \/ IsDuplicate(fact, LoadFacts(knowledge_file))
    /\ knowledge_file' = AfterAddFact(knowledge_file, fact)
    /\ knowledge_last' = [op |-> "add", arg |-> fact, before |-> knowledge_file]
    /\ UNCHANGED <<config, args, globals, control, session, history, diary,
                   diary_store, diary_added, goals_file, tool_kind, tool_pc,
                   tool_loaded, tool_arg>>

\* remove_fact(fact_pattern) as one call running alone.
remove_fact(fact_pattern) ==
    /\ knowledge_file' = AfterRemoveFact(knowledge_file, fact_pattern)
    /\ knowledge_last' = [op |-> "remove", arg |-> fact_pattern, before |-> knowledge_file]
    /\ UNCHANGED <<config, args, globals, control, session, history, diary,
                   diary_store, diary_added, goals_file, tool_kind, tool_pc,
                   tool_loaded, tool_arg>>

KnowledgeNext ==
    \/ \E fact \in Facts : add_fact(fact)
    \/ \E fact_pattern \in Patterns : remove_fact(fact_pattern)

KnowledgeSpec == Init /\ [][KnowledgeNext]_vars

\* ------------------------------------------------- tools/update_goals.py
Categories == {"short_term", "long_term"}

\* Lines 28-32: the goals add_goal starts from.
LoadGoals(file) ==
    IF file = None
    THEN [short_term |-> << >>, long_term |-> << >>, completed |-> << >>]
    ELSE Get(file)

\* Lines 35-46: the goals add_goal saves.
WithGoal(goals, category, goal, now) ==
    [goals EXCEPT ![category] =
         Append(@, [goal |-> goal, created_at |-> now, status |-> "active"])]

\* ------------------------------------- two tool processes at the same time
\* The tools whose add call loads the store, changes it and saves it.
ToolKinds == {"diary", "knowledge", "goals"}

\* The arguments of the two calls: two diary entries, two different facts,
\* two goals.
ToolArgs(kind) ==
    CASE kind = "diary"     -> {[p \in ToolProcs |-> p]}
      [] kind = "knowledge" -> {a \in [ToolProcs -> Facts] : a[1] # a[2]}
      [] kind = "goals"     -> {[p \in ToolProcs |-> [category |-> c[p], goal |-> p]] :
                                  c \in [ToolProcs -> Categories]}

\* Two processes of the same tool are started at the same time.
StartTools(kind, a) ==
    /\ tool_kind = "none"
    /\ tool_kind' = kind
    /\ tool_arg' = a
    /\ tool_pc' = [p \in ToolProcs |-> "start"]
    /\ UNCHANGED <<config, args, globals, control, session, history, diary,
                   diary_store, diary_added, knowledge_file, knowledge_last,
                   goals_file, tool_loaded>>

\* update_diary.py lines 53-57, update_knowledge.py lines 27-31,
\* update_goals.py lines 28-32: process p reads the store.
ToolLoad(p) ==
    /\ tool_pc[p] = "start"
    /\ tool_pc' = [tool_pc EXCEPT ![p] = "loaded"]
    /\ tool_loaded' =
          [tool_loaded EXCEPT ![p] =
               CASE tool_kind = "diary"     -> Some(LoadDiary(diary_store))
                 [] tool_kind = "knowledge" -> Some(LoadFacts(knowledge_file))
                 [] tool_kind = "goals"     -> Some(LoadGoals(goals_file))]
    /\ UNCHANGED <<config, args, globals, control, session, history, diary,
                   diary_store, diary_added, knowledge_file, knowledge_last,
                   goals_file, tool_kind, tool_arg>>

\* update_diary.py lines 60-83, update_knowledge.py lines 34-44,
\* update_goals.py lines 35-51: process p changes what it has read and
\* writes the whole store.  No lock is taken and the file is not read again.
ToolSave(p, now) ==
    /\ tool_pc[p] = "loaded"
    /\ tool_pc' = [tool_pc EXCEPT ![p] = "done"]
    /\ LET loaded == Get(tool_loaded[p])
           arg    == tool_arg[p]
       IN  CASE tool_kind = "diary" ->
                    /\ diary_store' = Some(WithDiaryEntry(loaded, now, arg))
                    /\ UNCHANGED <<knowledge_file, goals_file>>
             [] tool_kind = "knowledge" ->
                    /\ knowledge_file' = IF IsDuplicate(arg, loaded) THEN knowledge_file
                                         ELSE Some(Append(loaded, arg))
                    /\ UNCHANGED <<diary_store, goals_file>>
             [] tool_kind = "goals" ->
                    /\ goals_file' = Some(WithGoal(loaded, arg.category, arg.goal, now))
                    /\ UNCHANGED <<diary_store, knowledge_file>>
    /\ UNCHANGED <<config, args, globals, control, session, history, diary,
                   diary_added, knowledge_last, tool_kind, tool_loaded, tool_arg>>

ConcurrentNext ==
    \/ \E kind \in ToolKinds : \E a \in ToolArgs(kind) : StartTools(kind, a)
    \/ \E p \in ToolProcs : ToolLoad(p)
    \/ \E p \in ToolProcs, now \in 0..MaxClock : ToolSave(p, now)

ConcurrentSpec == Init /\ [][ConcurrentNext]_vars

\* ------------------------------------------------------------------ claims
\* subprocess.run has ended in a way that is a failure of the invocation.
IsFailure(e) ==
    \/ e.kind = "exit" /\ e.code # EXIT_OK
    \/ e.kind = "raise" /\ e.exc \in {"TimeoutExpired", "OSError"}

\* The child launch has ended by itself: a return code, the supervisory
\* timeout or a launch exception (not the operator's interrupt).
ChildEnding(e) ==
    \/ e.kind = "exit"
    \/ e.kind = "raise" /\ e.exc \in {"TimeoutExpired", "OSError"}

\* The outcome lines logged by the current run_session call.
LoggedOutcomes == SelectSeq(inv_log, IsOutcomeLine)

\* C1: within one process the step numbers of successive run_session calls
\* are 1, 2, ..., MAX_SESSIONS, 1, 2, ...: the first call uses 1 and every
\* later call uses the successor (cyclically) of the step the call before it
\* used, whatever the ending of that call.
C1_StepSequence ==
    pc = "running" =>
        /\ step_number = (prev_step % MAX_SESSIONS) + 1
        /\ invocations = 1 => prev_step = 0
        /\ invocations > 1 => prev_step \in 1..MAX_SESSIONS

C1_Witness ==
    /\ pc = "running"
    /\ MAX_SESSIONS = 5
    /\ prev_step = 5
    /\ step_number = 1
    /\ prev_ending = RaiseEnding("TimeoutExpired")

\* C2: the command carries --continue if and only if the step number is
\* strictly between 1 and MAX_SESSIONS; step 1 and step MAX_SESSIONS never
\* carry it.
C2_ContinueFlag ==
    invocations > 0 =>
        /\ cmd_continue <=> (1 < step_number /\ step_number < MAX_SESSIONS)
        /\ step_number = 1 => ~cmd_continue
        /\ step_number = MAX_SESSIONS => ~cmd_continue

C2_Witness ==
    /\ pc = "running"
    /\ MAX_SESSIONS = 2
    /\ step_number = 2
    /\ ~cmd_continue

\* C3: cycle_start_time is None until the first run_session call of a
\* process; the call with step number 1 stores the present time in it and a
\* call with any other step number, and the end of any call, leaves it as it
\* is.
C3_CycleStartInv ==
    /\ pc = "main" => cycle_start_time = None
    /\ invocations > 0 => cycle_start_time # None
    /\ (pc = "running" /\ elapsed = 0 /\ step_number = 1) => cycle_start_time = Some(0)
    /\ (pc = "running" /\ step_number > 1) => Get(cycle_start_time) >= Get(gap)

C3_CycleStartStep ==
    /\ (pc # "running" /\ pc' = "running" /\ step_number' = 1)
          => cycle_start_time' = Some(0)
    /\ (pc # "running" /\ pc' = "running" /\ step_number' # 1)
          => (cycle_start_time' = cycle_start_time /\ cycle_start_time # None)
    /\ (pc = "running" /\ pc' # "running") => cycle_start_time' = cycle_start_time

C3_CycleStart == []C3_CycleStartInv /\ [][C3_CycleStartStep]_vars

C3_Witness ==
    /\ pc = "running"
    /\ MAX_SESSIONS = 5
    /\ prev_step = 5
    /\ step_number = 1
    /\ elapsed = 1
    /\ cycle_start_time = Some(1)

\* The record a --once run leaves in once_hist when it runs step n of a cycle.
OnceRun(n, fresh) ==
    [step |-> n,
     continue |-> (1 < n /\ n < MAX_SESSIONS),
     final |-> (n = MAX_SESSIONS),
     new_cycle_start |-> fresh]

\* C4 as stated: successive --once runs from a cold start walk through the
\* cycle, the k-th run executing step ((k-1) mod MAX_SESSIONS) + 1 with the
\* flags of that step, and only the runs at step 1 storing a new cycle start.
C4_StateCarriesOver ==
    \A k \in 1..Len(once_hist) :
        LET n == ((k - 1) % MAX_SESSIONS) + 1
        IN  once_hist[k] = OnceRun(n, n = 1)

\* C4 amended: nothing carries over between separate runs; every --once run
\* executes step 1 without --continue and with a new cycle start, flagged
\* final only when MAX_SESSIONS is 1.
C4_OnceRunsRestart ==
    \A k \in 1..Len(once_hist) : once_hist[k] = OnceRun(1, TRUE)

C4_Witness ==
    /\ MAX_SESSIONS = 5
    /\ Len(once_hist) = 6
    /\ once_hist[5].step = 1
    /\ once_hist[6].step = 1
    /\ pc = "stopped"
    /\ stop_reason = "returned"

\* C5: a call at step n < MAX_SESSIONS that ended with exit 124, another
\* non-zero return code, the supervisory timeout or a launch exception is
\* followed in the same process by a call at step n + 1.
C5_FailureStillAdvances ==
    (pc = "running" /\ IsFailure(prev_ending) /\ prev_step < MAX_SESSIONS)
        => step_number = prev_step + 1

C5_Witness ==
    /\ pc = "running"
    /\ prev_ending = ExitEnding(EXIT_TIMEOUT)
    /\ prev_step = 2
    /\ step_number = 3
    /\ MAX_SESSIONS = 5

\* The three outcome classes of the runner and the class of each outcome
\* line ("timed out (Python level)" is the supervisory timeout's own line).
OutcomeClass(line) ==
    CASE line = "completed normally" -> "Completed"
      [] line = "timed out" -> "TimedOut"
      [] line = "exited with code" -> "Failed"
      [] line = "error" -> "Failed"
      [] line = "timed out (Python level)" -> "SupervisoryTimeout"

\* C6: once the child launch has ended, exactly one outcome line has been
\* logged for the call and its class is fixed by the ending: Completed for
\* return code 0, TimedOut for 124, Failed for any other return code and for
\* a launch failure.
C6_OutcomeMapping ==
    (pc # "running" /\ ChildEnding(last_ending)) =>
        /\ Len(LoggedOutcomes) = 1
        /\ (last_ending.kind = "exit" /\ last_ending.code = EXIT_OK)
              => OutcomeClass(LoggedOutcomes[1]) = "Completed"
        /\ (last_ending.kind = "exit" /\ last_ending.code = EXIT_TIMEOUT)
              => OutcomeClass(LoggedOutcomes[1]) = "TimedOut"
        /\ (last_ending.kind = "exit" /\ last_ending.code \notin {EXIT_OK, EXIT_TIMEOUT})
              => OutcomeClass(LoggedOutcomes[1]) = "Failed"
        /\ (last_ending.kind = "raise" /\ last_ending.exc = "OSError")
              => OutcomeClass(LoggedOutcomes[1]) = "Failed"

C6_Witness ==
    /\ pc = "loop"
    /\ last_ending = ExitEnding(EXIT_TIMEOUT)
    /\ LoggedOutcomes = <<"timed out">>

\* C7: whichever way the child launch ends (any return code, supervisory
\* timeout, launch exception), run_session returns to its caller: the
\* process does not die of an exception, a --once run ends by returning from
\* main, and one outcome line was logged after the start line.
C7_NeverThrows ==
    (pc # "running" /\ ChildEnding(last_ending)) =>
        /\ stop_reason # "traceback"
        /\ caller = "once" => (pc = "stopped" /\ stop_reason = "returned")
        /\ caller # "once" => (pc \in {"loop", "sleep"} \/ stop_reason = "stopped by user")
        /\ \E i \in 1..Len(inv_log) :
               /\ IsOutcomeLine(inv_log[i])
               /\ \A j \in 1..Len(inv_log) : IsOutcomeLine(inv_log[j]) => j = i
               /\ \E j \in 1..(i - 1) : inv_log[j] = "starting session"

C7_Witness ==
    /\ pc = "sleep"
    /\ caller = "scheduled"
    /\ last_ending = RaiseEnding("OSError")
    /\ LoggedOutcomes = <<"error">>

\* C8: at most one subprocess.run call is outstanding, it is outstanding
\* exactly while the process is blocked in it, and no step starts a call
\* while one is outstanding, even when the job has come due meanwhile.
C8_SerialInv ==
    /\ outstanding \in {0, 1}
    /\ outstanding = 1 <=> pc = "running"

C8_SerialStep == outstanding = 1 => outstanding' <= 1

C8_StrictlySerial == []C8_SerialInv /\ [][C8_SerialStep]_vars

C8_Witness ==
    /\ pc = "running"
    /\ caller = "first"
    /\ outstanding = 1
    /\ ShouldRun
    /\ elapsed > interval

\* C9 as stated: in continuous mode the first call starts at startup, with
\* the timer just armed, and every later call starts exactly interval
\* minutes after the start of the call before it.
C9_FixedPeriod ==
    (pc = "running" /\ ~once) =>
        /\ (invocations = 1 /\ elapsed = 0) => next_run = Some(interval)
        /\ gap # None => Get(gap) = interval

\* C9 amended: the first call starts at startup; a later call starts at
\* least interval minutes after the start of the call before it, and when
\* that call was a scheduled one, at least interval minutes after its return
\* (the timer is armed again only then).
C9_AtLeastInterval ==
    (pc = "running" /\ ~once) =>
        /\ (invocations = 1 /\ elapsed = 0) => next_run = Some(interval)
        /\ gap # None => Get(gap) >= interval
        /\ invocations = 3 => Get(idle) >= interval

C9_Witness ==
    /\ pc = "running"
    /\ ~once
    /\ invocations = 3
    /\ interval = 1
    /\ prev_ending = RaiseEnding("TimeoutExpired")
    /\ Get(idle) = interval
    /\ Get(gap) = interval + SESSION_TIMEOUT_MINUTES + SUPERVISORY_EXTRA_MINUTES

\* The steps of a process that the operator does not cause: the child runs
\* on or ends by itself, and the main thread goes on.
ChildProgress ==
    \/ ChildTick
    \/ \E e \in Endings : ChildEnding(e) /\ ChildEnds(e)

\* subprocess.run returns at the latest when its timeout is used up and
\* time.sleep returns, so a process that is not interrupted keeps stepping.
\* The steps of continuous processes; --once and -m play no part in the
\* loop.
LiveNext ==
    \/ \E i \in 1..MaxInterval : Startup(FALSE, i, None)
    \/ FirstSession
    \/ ChildTick
    \/ \E e \in Endings : ChildEnds(e)
    \/ RunPending
    \/ Sleep
    \/ Interrupt

LiveSpec ==
    /\ Init
    /\ [][LiveNext]_vars
    /\ WF_vars(FirstSession)
    /\ WF_vars(ChildProgress)
    /\ WF_vars(RunPending)
    /\ WF_vars(Sleep)

\* The pending-notices fetch of the current call failed.
FetchFailed == email_fetch \in {"missing", "nonzero", "timeout", "exception"}

\* A call of a continuous-mode process has ended in a failure.
CallFailed ==
    /\ ~once
    /\ pc # "running"
    /\ last_ending # NoEnding
    /\ IsFailure(last_ending) \/ FetchFailed

\* The operator has stopped the process.
Interrupted ==
    \/ stop_reason = "stopped by user"
    \/ stop_reason = "traceback" /\ last_ending = RaiseEnding("KeyboardInterrupt")

\* C10: in continuous mode, after a call that ended in a failure, a further
\* call starts unless the operator interrupts the process.
C10_LoopSurvives == CallFailed ~> (pc = "running" \/ Interrupted)

C10_Witness ==
    /\ ~once
    /\ pc = "running"
    /\ caller = "scheduled"
    /\ prev_ending = RaiseEnding("OSError")
    /\ invocations = 3

\* C11: a process started with an interval that is not positive runs no
\* session and ends with a non-zero exit status.
C11_InvalidConfigRejected ==
    interval <= 0 =>
        /\ invocations = 0
        /\ launches = 0
        /\ pc \in {"main", "stopped"}
        /\ pc = "stopped" => (exit_status # None /\ Get(exit_status) # 0)

\* C12: a --once process registers no job, calls run_session once, launches
\* the child once and ends by returning from main as soon as the child
\* launch has ended, without polling or sleeping.
C12_OnceRunsOnce ==
    once =>
        /\ next_run = None
        /\ pc \in {"main", "running", "stopped"}
        /\ invocations <= 1
        /\ launches <= 1
        /\ (pc # "running" /\ ChildEnding(last_ending)) =>
              /\ pc = "stopped"
              /\ stop_reason = "returned"
              /\ invocations = 1
              /\ launches = 1

C12_Witness ==
    /\ once
    /\ pc = "stopped"
    /\ stop_reason = "returned"
    /\ invocations = 1
    /\ last_ending = RaiseEnding("TimeoutExpired")

\* C13: whenever a process has ended, it has ended with exit status 0, by
\* returning from main or through the logged handler of the interrupt.
C13_ExitStatusZero ==
    (pc = "stopped" /\ exit_status # None) =>
        /\ exit_status = Some(0)
        /\ stop_reason \in {"returned", "stopped by user"}

\* C14: a run_session call launches the child at most once: after a failed
\* or timed-out launch the call has still made one launch and logged one
\* outcome.
C14_NoRetryInTick ==
    /\ launches <= 1
    /\ invocations > 0 => launches = 1
    /\ (pc # "running" /\ IsFailure(last_ending)) => Len(LoggedOutcomes) = launches

C14_Witness ==
    /\ pc = "sleep"
    /\ caller = "scheduled"
    /\ last_ending = ExitEnding(EXIT_TIMEOUT)
    /\ launches = 1

\* C15: when a call has returned, session_count is 0 if and only if the call
\* was the final one (step MAX_SESSIONS), whatever its ending; after a call
\* that was not final it is the step of that call.
C15_ResetExactlyAtCycleEnd ==
    (pc # "running" /\ ChildEnding(last_ending)) =>
        /\ session_count = 0 <=> step_number = MAX_SESSIONS
        /\ step_number = MAX_SESSIONS <=> is_final
        /\ step_number < MAX_SESSIONS => session_count = step_number

C15_Witness ==
    /\ pc = "sleep"
    /\ MAX_SESSIONS = 5
    /\ step_number = 5
    /\ last_ending = RaiseEnding("OSError")
    /\ session_count = 0

\* The records of the diary store, if it is a readable list.
DiaryEntries == IF diary_file # None /\ Get(diary_file).json = "list"
                THEN Get(diary_file).entries ELSE << >>

\* C16: check_diary_written returns True only when the last record of the
\* store carries a time strictly later than cycle_start_time; it returns
\* False for an absent store, an empty store, and a last record whose time
\* equals or precedes cycle_start_time.
C16_DiaryFreshness ==
    diary_written # None =>
        LET r == Get(diary_written)
            n == Len(DiaryEntries)
        IN  /\ diary_file = None => ~r
            /\ n = 0 => ~r
            /\ r => /\ n > 0
                    /\ DiaryEntries[n].kind = "ok"
                    /\ cycle_start_time # None
                    /\ DiaryEntries[n].age < Get(cycle_start_time)
            /\ (n > 0 /\ DiaryEntries[n].kind = "ok" /\ cycle_start_time # None
                  /\ DiaryEntries[n].age >= Get(cycle_start_time)) => ~r

C16_Witness ==
    /\ diary_written = Some(TRUE)
    /\ Len(DiaryEntries) = 2
    /\ DiaryEntries[1] = [kind |-> "ok", age |-> 2]
    /\ DiaryEntries[2] = [kind |-> "ok", age |-> 0]
    /\ cycle_start_time = Some(1)

\* The subject lines of a composed message, in order.
ListedSubjects(msg) == SelectSeq(msg, LAMBDA l : l.t = "subject")

\* The lines that state how many unread emails there are.
CountLines(msg) == SelectSeq(msg, LAMBDA l : l.t = "unread email(s)")

\* C17: composed from an email_info of k >= 1 subjects, the message lists
\* exactly min(k, 5) subjects, the first ones in the given order, and for
\* k > 5 its count line states k, more than it lists.
C17_ListCappedAtFive ==
    (system_message # << >> /\ email_result # None /\ Get(email_result).count >= 1) =>
        LET k == Len(Get(email_result).emails)
            listed == ListedSubjects(system_message)
        IN  /\ Len(listed) = Min(k, 5)
            /\ Len(listed) <= 5
            /\ \A i \in 1..Len(listed) : listed[i].text = Get(email_result).emails[i]
            /\ k > 5 => /\ Len(CountLines(system_message)) = 1
                        /\ CountLines(system_message)[1].count = k
                        /\ CountLines(system_message)[1].count > Len(listed)

C17_Witness ==
    /\ email_result = EmailInfo(7)
    /\ system_message # << >>
    /\ Len(ListedSubjects(system_message)) = 5
    /\ ListedSubjects(system_message)[5].text = "5"

\* The composed message carries the final-session block.
HasReflectionMarker(msg) == \E i \in 1..Len(msg) : msg[i].t = "Reflection & Diary"

\* C18: the message composed for a call carries the reflection marker if and
\* only if the call is step MAX_SESSIONS; for the steps before it the line
\* after the header is the plain session line of that step.
C18_MarkerIffFinal ==
    invocations > 0 =>
        /\ HasReflectionMarker(system_message) <=> step_number = MAX_SESSIONS
        /\ step_number < MAX_SESSIONS => system_message[3] = SessionLine(step_number)
        /\ step_number = MAX_SESSIONS => system_message[3].t = "Reflection & Diary"

C18_Witness ==
    /\ pc = "running"
    /\ MAX_SESSIONS = 5
    /\ step_number = 5
    /\ custom_message # None
    /\ HasReflectionMarker(system_message)
    /\ prev_step = 4

\* C19 (as stated): whenever session_count is 0 between calls,
\* cycle_start_time is unset.
C19_IdleMeansUnset ==
    (pc # "running" /\ session_count = 0) => cycle_start_time = None

\* C19 (amended): cycle_start_time is unset only before the first call of a
\* process; once the final call of a cycle has returned, session_count is 0
\* and cycle_start_time still holds the start of the finished cycle, which
\* lies at or before the start of that final call.
C19_CycleStartKept ==
    /\ (pc # "running" /\ invocations = 0) => cycle_start_time = None
    /\ (pc # "running" /\ session_count = 0 /\ invocations > 0 /\ ChildEnding(last_ending)) =>
          /\ is_final
          /\ cycle_start_time # None
          /\ Get(cycle_start_time) >= since_start

C19_Witness ==
    /\ pc = "sleep"
    /\ MAX_SESSIONS = 5
    /\ session_count = 0
    /\ is_final
    /\ cycle_start_time # None
    /\ Get(cycle_start_time) > since_start

\* C20: the supervisory limit is one minute above the wrapper's; a child that
\* ends by exit once the wrapper's limit has been reached ends with 124,
\* before the supervisory limit, and is logged as timed out; TimeoutExpired
\* is raised only at the supervisory limit.
C20_TimeoutLayers ==
    /\ SupervisoryLimit = WrapperLimit + 1
    /\ (pc # "running" /\ ChildEnding(last_ending)) =>
          LET duration == since_start - since_end
          IN  /\ (last_ending.kind = "exit" /\ duration >= WrapperLimit) =>
                    /\ last_ending.code = EXIT_TIMEOUT
                    /\ duration < SupervisoryLimit
                    /\ LoggedOutcomes = <<"timed out">>
              /\ last_ending = RaiseEnding("TimeoutExpired") =>
                    /\ duration = WrapperLimit + 1
                    /\ LoggedOutcomes = <<"timed out (Python level)">>

C20_Witness ==
    /\ pc = "loop"
    /\ caller = "first"
    /\ last_ending = ExitEnding(EXIT_TIMEOUT)
    /\ since_start - since_end = WrapperLimit
    /\ session_count = 1

\* C21 (as stated): the supervisory timeout is logged with a line of the
\* Failed class, different from the line of exit code 124.
C21_SupervisoryIsFailed ==
    (pc # "running" /\ last_ending = RaiseEnding("TimeoutExpired")) =>
        /\ Len(LoggedOutcomes) = 1
        /\ OutcomeClass(LoggedOutcomes[1]) = "Failed"
        /\ LoggedOutcomes[1] # ReturnCodeLine(EXIT_TIMEOUT)

\* C21 (amended): the supervisory timeout is logged with a timeout line of
\* its own, "timed out (Python level)", which is neither the line of exit
\* code 124 nor one of the two failure lines; exit code 124 is logged as
\* "timed out" and never with the supervisory line.
C21_TimeoutLinesDistinct ==
    /\ (pc # "running" /\ last_ending = RaiseEnding("TimeoutExpired")) =>
          /\ LoggedOutcomes = <<ExceptionLine("TimeoutExpired")>>
          /\ LoggedOutcomes[1] # ReturnCodeLine(EXIT_TIMEOUT)
          /\ LoggedOutcomes[1] \notin {"exited with code", "error"}
          /\ OutcomeClass(LoggedOutcomes[1]) = "SupervisoryTimeout"
    /\ (pc # "running" /\ last_ending = ExitEnding(EXIT_TIMEOUT)) =>
          /\ LoggedOutcomes = <<"timed out">>
          /\ LoggedOutcomes[1] # "timed out (Python level)"

C21_Witness ==
    /\ pc = "sleep"
    /\ caller = "scheduled"
    /\ last_ending = RaiseEnding("TimeoutExpired")
    /\ LoggedOutcomes = <<"timed out (Python level)">>
    /\ session_count = 2

\* The email_result of a fetch that found no unread email.
NoEmails == Some([count |-> 0, emails |-> << >>])

\* C22: when the fetch of unread emails fails (script missing, non-zero
\* exit, timeout, exception) the call goes on as with no email: the message
\* has no email block and equals the one composed for zero emails, the child
\* is launched once, the step is the successor of the previous step, and
\* session_count after the call is what it is after any call of that step.
C22_FetchFailureAbsorbed ==
    (invocations > 0 /\ FetchFailed) =>
        /\ email_result = None
        /\ CountLines(system_message) = << >>
        /\ ListedSubjects(system_message) = << >>
        /\ system_message = build_system_message(step_number, is_final,
                                                 custom_message, NoEmails)
        /\ launches = 1
        /\ pc = "running" => step_number = (prev_step % MAX_SESSIONS) + 1
        /\ (pc # "running" /\ ChildEnding(last_ending)) =>
              session_count = (IF step_number = MAX_SESSIONS THEN 0 ELSE step_number)

C22_Witness ==
    /\ pc = "running"
    /\ email_fetch = "timeout"
    /\ step_number = 2
    /\ prev_step = 1
    /\ launches = 1
    /\ custom_message # None
    /\ Len(system_message) = 5

\* l is one of the lines of log.
Logged(log, l) == \E i \in 1..Len(log) : log[i] = l

\* The position of the first line l of log, 0 if there is none.
PositionOf(log, l) ==
    IF Logged(log, l) THEN CHOOSE i \in 1..Len(log) :
                               log[i] = l /\ \A j \in 1..(i - 1) : log[j] # l
    ELSE 0

\* The position of the outcome line of the current call, 0 if there is none.
OutcomePosition ==
    IF LoggedOutcomes = << >> THEN 0
    ELSE CHOOSE i \in 1..Len(inv_log) :
             IsOutcomeLine(inv_log[i]) /\ \A j \in 1..(i - 1) : ~IsOutcomeLine(inv_log[j])

\* The start line precedes every call; a returned call has logged its start
\* line, then one outcome line, the cycle-start line exactly at step 1 and
\* the cycle-completed line exactly at step MAX_SESSIONS, after the outcome.
LifecycleLogged ==
    /\ invocations > 0 =>
          /\ main_log # << >>
          /\ main_log[1] = "starting autonomous scheduler"
          /\ Logged(inv_log, "starting session")
          /\ Logged(inv_log, "starting new cycle") <=> step_number = 1
    /\ pc = "running" => LoggedOutcomes = << >>
    /\ (pc # "running" /\ ChildEnding(last_ending)) =>
          /\ Len(LoggedOutcomes) = 1
          /\ PositionOf(inv_log, "starting session") < OutcomePosition
          /\ Logged(inv_log, "cycle completed") <=> step_number = MAX_SESSIONS
          /\ Logged(inv_log, "cycle completed") =>
                PositionOf(inv_log, "cycle completed") > OutcomePosition

\* C25 (as stated): the lifecycle lines are logged in order, and a process
\* that has stopped, by returning in --once mode or by the handled
\* interrupt, has logged a shutdown line.
C25_AllEventsLogged ==
    /\ LifecycleLogged
    /\ (pc = "stopped" /\ stop_reason \in {"returned", "stopped by user"}) =>
          Logged(main_log, "scheduler stopped by user")

\* C25 (amended): the lifecycle lines are logged in order; the shutdown
\* line is logged exactly when the process has stopped through the handled
\* interrupt of the continuous loop, as its last line.  A --once process
\* logs "running single session" before its call and no line when it stops.
C25_ShutdownLoggedOnInterruptOnly ==
    /\ LifecycleLogged
    /\ Logged(main_log, "scheduler stopped by user") <=> stop_reason = "stopped by user"
    /\ stop_reason = "stopped by user" =>
          /\ ~once
          /\ main_log[Len(main_log)] = "scheduler stopped by user"
    /\ (once /\ pc # "stopped") => main_log = StartupLog(TRUE)
    /\ (once /\ stop_reason = "returned") => main_log = StartupLog(TRUE)

C25_Witness ==
    /\ once
    /\ MAX_SESSIONS = 1
    /\ pc = "stopped"
    /\ stop_reason = "returned"
    /\ inv_log[1] = "starting new cycle"
    /\ inv_log[Len(inv_log)] = "cycle completed"
    /\ ~Logged(main_log, "scheduler stopped by user")

\* C26: session_count is always in 0..MAX_SESSIONS; while the loop polls or
\* sleeps it is in 0..MAX_SESSIONS-1, while a call runs it is in
\* 1..MAX_SESSIONS; a process stopped by an interrupt during the wait is
\* left with a count whose successor is a step of the cycle.
C26_StepRange ==
    /\ session_count \in 0..MAX_SESSIONS
    /\ pc \in {"loop", "sleep"} => session_count \in 0..(MAX_SESSIONS - 1)
    /\ pc = "running" => session_count \in 1..MAX_SESSIONS
    /\ (stop_reason = "stopped by user" /\ ChildEnding(last_ending)) =>
          session_count + 1 \in 1..MAX_SESSIONS

C26_Witness ==
    /\ pc = "stopped"
    /\ stop_reason = "stopped by user"
    /\ MAX_SESSIONS = 5
    /\ session_count = 4
    /\ last_ending = ExitEnding(1)

\* The last record of the diary store.
LastEntry == DiaryEntries[Len(DiaryEntries)]

\* The call has returned a value, and it is False for a missing, unreadable,
\* malformed or empty store, for a last record without a usable time, and
\* while cycle_start_time is None.
C23_ReturnsFalse ==
    diary_written # None =>
        /\ Len(diary_written) = 1
        /\ Get(diary_written) \in BOOLEAN
        /\ ( \/ diary_file = None
             \/ Get(diary_file).json \in {"unreadable", "malformed"}
             \/ DiaryEntries = << >>
             \/ LastEntry.kind \in {"missing", "unparsable"}
             \/ cycle_start_time = None ) => Get(diary_written) = FALSE

\* The call writes neither session_count nor cycle_start_time nor the store.
C23_CycleStateKept ==
    [][UNCHANGED <<session_count, cycle_start_time, diary_file>>]_vars

\* C23: check_diary_written never raises into its caller: it returns False
\* for every store it cannot read or that has no usable last time, and when
\* cycle_start_time is still None, and it leaves the cycle state unchanged.
C23_NeverRaises == []C23_ReturnsFalse /\ C23_CycleStateKept

C23_Witness ==
    /\ diary_written = Some(FALSE)
    /\ cycle_start_time = None
    /\ Len(DiaryEntries) = 1
    /\ LastEntry = [kind |-> "ok", age |-> 0]

\* The sections of the composed message, from what the call was given.
HeaderSection == <<Line("System notification:"), Line("Current time")>>
MarkerLength == IF is_final THEN 12 ELSE 1
HasNotices == email_result # None /\ Get(email_result).count > 0
NoticesLength == IF HasNotices THEN 2 + Min(5, Len(Get(email_result).emails)) ELSE 0
HasAnnotation == custom_message # None /\ Get(custom_message) # ""
AnnotationLength == IF HasAnnotation THEN 1 ELSE 0

\* The blank lines of msg from position from on.
BlanksFrom(msg, from) == {i \in from..Len(msg) : msg[i] = Blank}

\* C24 (as stated): the sections come in the order header, step marker,
\* notices, annotation, every two consecutive sections separated by exactly
\* one blank line: the header is followed by a blank line and the marker
\* starts on the line after it.
C24_BlankBetweenAllSections ==
    system_message # << >> =>
        /\ SubSeq(system_message, 1, 2) = HeaderSection
        /\ system_message[3] = Blank
        /\ system_message[4].t \in {"Session", "Reflection & Diary"}
        /\ Len(system_message) =
              2 + 1 + MarkerLength
              + (IF HasNotices THEN 1 + NoticesLength ELSE 0)
              + (IF HasAnnotation THEN 1 + AnnotationLength ELSE 0)

\* C24 (amended): the sections come in the order header, step marker,
\* notices, annotation; the step marker follows the header directly, with
\* no blank line; the notices block and the block of a non-empty annotation
\* are each preceded by exactly one blank line; an omitted section adds no
\* line, and the annotation, if any, is the last line.
C24_SectionOrder ==
    system_message # << >> =>
        LET msg == system_message
            afterMarker == 2 + MarkerLength
            afterNotices == afterMarker + (IF HasNotices THEN 1 + NoticesLength ELSE 0)
        IN  /\ SubSeq(msg, 1, 2) = HeaderSection
            /\ msg[3].t = (IF is_final THEN "Reflection & Diary" ELSE "Session")
            /\ msg[afterMarker] # Blank
            /\ HasNotices =>
                  /\ msg[afterMarker + 1] = Blank
                  /\ msg[afterMarker + 2].t = "unread email(s)"
                  /\ \A i \in (afterMarker + 3)..(afterNotices - 1) : msg[i].t = "subject"
                  /\ msg[afterNotices] = Line("Use receive_email.py")
            /\ HasAnnotation =>
                  /\ msg[afterNotices + 1] = Blank
                  /\ msg[afterNotices + 2].t = "Message"
                  /\ msg[afterNotices + 2].text = Get(custom_message)
            /\ Len(msg) = afterNotices + (IF HasAnnotation THEN 2 ELSE 0)
            /\ BlanksFrom(msg, afterMarker + 1) =
                  (IF HasNotices THEN {afterMarker + 1} ELSE {})
                  \cup (IF HasAnnotation THEN {afterNotices + 1} ELSE {})

C24_Witness ==
    /\ system_message # << >>
    /\ is_final
    /\ MAX_SESSIONS = 3
    /\ email_result = EmailInfo(2)
    /\ custom_message = Some("note")
    /\ Len(system_message) = 2 + 12 + 5 + 2

\* The entries of the diary store as a set.
StoredEntries == {Get(diary_store)[i] : i \in 1..Len(Get(diary_store))}

\* C27: after any sequence of add_diary_entry calls, each running alone, on
\* a store that was absent or empty, the stored entries are in
\* non-decreasing datetime order, they are exactly the added entries, and
\* the last one carries the greatest datetime.
C27_DiarySorted ==
    diary_store # None =>
        LET entries == Get(diary_store)
        IN  /\ \A i \in 1..(Len(entries) - 1) :
                   entries[i].datetime <= entries[i + 1].datetime
            /\ StoredEntries = diary_added
            /\ Len(entries) = Cardinality(diary_added)
            /\ \A e \in diary_added :
                   e.datetime <= entries[Len(entries)].datetime

C27_Witness ==
    /\ diary_store # None
    /\ Len(Get(diary_store)) = 3
    /\ Get(diary_store)[1] = [datetime |-> 0, id |-> 3]
    /\ Get(diary_store)[2] = [datetime |-> 1, id |-> 2]
    /\ Get(diary_store)[3] = [datetime |-> 2, id |-> 1]

\* The facts of a knowledge file, none if it is absent.
FactsOf(file) == IF file = None THEN << >> ELSE Get(file)

\* C28: starting from an absent store, the fact list never holds a fact
\* twice; add_fact of a fact already present leaves the store as it was;
\* remove_fact leaves no fact that contains the pattern and keeps the other
\* facts in their order; remove_fact with no matching fact, or on an absent
\* store, leaves the store as it was.
C28_KnowledgeSet ==
    LET facts  == FactsOf(knowledge_file)
        before == FactsOf(knowledge_last.before)
        arg    == knowledge_last.arg
    IN  /\ \A i, j \in 1..Len(facts) : facts[i] = facts[j] => i = j
        /\ knowledge_last.op = "add" =>
              /\ \E i \in 1..Len(facts) : facts[i] = arg
              /\ (\E i \in 1..Len(before) : before[i] = arg)
                    => knowledge_file = knowledge_last.before
        /\ knowledge_last.op = "remove" =>
              /\ (\A i \in 1..Len(before) : ~Contains(arg, before[i]))
                    => knowledge_file = knowledge_last.before
              /\ (\E i \in 1..Len(before) : Contains(arg, before[i])) =>
                    /\ \A i \in 1..Len(facts) : ~Contains(arg, facts[i])
                    /\ facts = SelectSeq(before, LAMBDA f : ~Contains(arg, f))

C28_Witness ==
    /\ knowledge_last = [op |-> "remove", arg |-> <<"a">>,
                         before |-> Some(<<<<"b">>, <<"b", "a">>, <<"b", "b">>>>)]
    /\ knowledge_file = Some(<<<<"b">>, <<"b", "b">>>>)

\* add_fact of a fact that is already stored has been called.
C28_IdempotentAdd ==
    /\ knowledge_last.op = "add"
    /\ knowledge_last.before = knowledge_file
    /\ Len(FactsOf(knowledge_file)) = 2

\* Both tool processes have ended.
BothDone == \A p \in ToolProcs : tool_pc[p] = "done"

\* The store of the tool holds what process p was to add.
Stored(p) ==
    CASE tool_kind = "diary" ->
             /\ diary_store # None
             /\ \E i \in 1..Len(Get(diary_store)) : Get(diary_store)[i].id = tool_arg[p]
      [] tool_kind = "knowledge" ->
             /\ knowledge_file # None
             /\ \E i \in 1..Len(Get(knowledge_file)) : Get(knowledge_file)[i] = tool_arg[p]
      [] tool_kind = "goals" ->
             /\ goals_file # None
             /\ LET list == Get(goals_file)[tool_arg[p].category]
                IN  \E i \in 1..Len(list) : list[i].goal = tool_arg[p].goal

\* C29: when two add_diary_entry calls (two add_fact calls with different
\* facts, two add_goal calls) run as separate processes and both have ended,
\* the store holds the entries of both.
C29_NoLostUpdate == BothDone => \A p \in ToolProcs : Stored(p)

====
